---- MODULE Spec2Model ----
(***************************************************************************)
(* pycard: rendering pipeline (CardRenderer.render_cards), change-driven   *)
(* refresh loop (RenderingEventHandler.on_any_event) and deck discovery    *)
(* (re_glob / main) of src/pycard.py.                                      *)
(*                                                                         *)
(* Text is a sequence of symbols (one-character strings, or one atom for a *)
(* longer literal such as "html.jinja2").  Python's None is <<>> and a     *)
(* present value v is <<v>>.                                               *)
(***************************************************************************)
EXTENDS Integers, Sequences, FiniteSets, TLC

VARIABLES
    args,            \* parsed command line (parse_args)
    listing,         \* os.listdir(assets_path), in the order it is returned
    card_renderers,  \* list of CardRenderer objects built by main
    files,           \* file system: path -> <<>> (missing) or <<content>>
    mainpc,          \* position of main: "start", "render", "serve", "crashed"
    observer,        \* watchdog observer thread: "new", "running", "dead"
    event_queue,     \* events the observer has still to dispatch
    event,           \* <<e>> while on_any_event(e) runs, else <<>>
    cur,             \* index of the for loop over card_renderers (0: no loop)
    pc,              \* position inside render_cards ("idle": not running)
    cards_data,      \* local of render_cards
    rendered_cards,  \* local of render_cards
    idx,             \* number of rows of cards_data already iterated
    num_cards,       \* local of render_cards
    template,        \* local of render_cards: the loaded single card template
    custom_header,   \* local of render_cards
    error,           \* name of the exception that escaped, or "none"
    invoked,         \* render_cards calls per renderer in the current loop
    prior,           \* content of the output file when the pass was entered
    served,          \* kind of content the live-reload server last read
    nexternal        \* number of external file changes so far

vars == <<args, listing, card_renderers, files, mainpc, observer, event_queue,
          event, cur, pc, cards_data, rendered_cards, idx, num_cards, template,
          custom_header, error, invoked, prior, served, nexternal>>

\* ---------------------------------------------------------------- bounds
MaxRows == 2
MaxExternal == 2
MaxQueue == 12

\* ------------------------------------------------------------ text helpers
None == <<>>

Some(v) == <<v>>

Truthy(opt) == opt # None /\ opt[1] # <<>>

UpperChars == <<"A","B","C","D","E","F","G","H","I","J","K","L","M",
                "N","O","P","Q","R","S","T","U","V","W","X","Y","Z">>

LowerChars == <<"a","b","c","d","e","f","g","h","i","j","k","l","m",
                "n","o","p","q","r","s","t","u","v","w","x","y","z">>

DigitChars == <<"0","1","2","3","4","5","6","7","8","9">>

IsDigit(c) == \E i \in 1..10 : DigitChars[i] = c

DigitVal(c) == (CHOOSE i \in 1..10 : DigitChars[i] = c) - 1

LowerChar(c) ==
    IF \E i \in 1..26 : UpperChars[i] = c
    THEN LowerChars[CHOOSE i \in 1..26 : UpperChars[i] = c]
    ELSE c

\* mutant: the comparison is made without lower()
LowerOmitted(s) == s

Lower(s) == [i \in 1..Len(s) |-> LowerChar(s[i])]

\* str(x): str(None) is the text "None"
Str(opt) == IF opt = None THEN <<"N","o","n","e">> ELSE opt[1]

RECURSIVE Strip(_)
Strip(s) ==
    IF s = <<>> THEN s
    ELSE IF Head(s) = " " THEN Strip(Tail(s))
    ELSE IF s[Len(s)] = " " THEN Strip(SubSeq(s, 1, Len(s) - 1))
    ELSE s

RECURSIVE DigitsValue(_, _)
DigitsValue(s, acc) ==
    IF s = <<>> THEN acc ELSE DigitsValue(Tail(s), 10 * acc + DigitVal(Head(s)))

\* int(s): <<n>> or None when int raises ValueError
IntParse(s) ==
    LET t == Strip(s)
        signed == t # <<>> /\ Head(t) \in {"+", "-"}
        d == IF signed THEN Tail(t) ELSE t
    IN  IF d # <<>> /\ \A i \in 1..Len(d) : IsDigit(d[i])
        THEN Some(IF signed /\ Head(t) = "-" THEN 0 - DigitsValue(d, 0)
                  ELSE DigitsValue(d, 0))
        ELSE None

\* re.match("^[^0-9]*$", s)
MatchesNoDigits(s) == \A i \in 1..Len(s) : ~IsDigit(s[i])

RECURSIVE Format(_, _)
\* tmpl.format(v): every "{}" of tmpl replaced by v
Format(tmpl, v) ==
    IF tmpl = <<>> THEN <<>>
    ELSE IF Head(tmpl) = "{}" THEN v \o Format(Tail(tmpl), v)
    ELSE <<Head(tmpl)>> \o Format(Tail(tmpl), v)

\* os.path.join(a, b)
PathJoin(a, b) ==
    IF b # <<>> /\ Head(b) = "/" THEN b
    ELSE IF a = <<>> \/ a[Len(a)] = "/" THEN a \o b
    ELSE a \o <<"/">> \o b

\* ------------------------------------------------------------ CardRenderer
get_path(input_path, prefix, extension) ==
    PathJoin(input_path, prefix \o <<".">> \o extension)

CardRenderer(input_path, prefix, rendered_cards_file, csv_file, css_file) ==
    [ prefix |-> prefix,
      input_path |-> input_path,
      csv_card_path |-> IF Truthy(csv_file) THEN csv_file[1]
                        ELSE get_path(input_path, prefix, <<"csv">>),
      css_file |-> IF Truthy(css_file) THEN css_file[1]
                   ELSE prefix \o <<".">> \o <<"css">>,
      custom_header_path |-> get_path(input_path, prefix, <<"header", ".", "html">>),
      single_card_template_path |-> get_path(input_path, prefix, <<"html.jinja2">>),
      all_cards_rendered_path |-> PathJoin(input_path, rendered_cards_file) ]

\* --------------------------------------------------------------- discovery
TemplateSuffix == <<".", "html.jinja2">>

HasPrefix(s, p) == Len(s) >= Len(p) /\ SubSeq(s, 1, Len(p)) = p

\* ends of the candidates for group 1 of  lit(.+)\.html\.jinja2  in name
GroupEnds(name, lit) ==
    { k \in (Len(lit) + 1)..(Len(name) - Len(TemplateSuffix)) :
        SubSeq(name, k + 1, k + Len(TemplateSuffix)) = TemplateSuffix }

\* regex.match(file): anchored at the start only, (.+) greedy
RegexMatches(name, pattern) ==
    /\ HasPrefix(name, pattern.lit)
    /\ IF pattern.group THEN GroupEnds(name, pattern.lit) # {}
       ELSE HasPrefix(SubSeq(name, Len(pattern.lit) + 1, Len(name)), TemplateSuffix)

Group1(name, pattern) ==
    LET e == CHOOSE k \in GroupEnds(name, pattern.lit) :
                 \A j \in GroupEnds(name, pattern.lit) : j <= k
    IN  SubSeq(name, Len(pattern.lit) + 1, e)

RECURSIVE MatchKeys(_, _, _)
\* keys of the dict built by re_glob, in insertion order
MatchKeys(names, pattern, acc) ==
    IF names = <<>> THEN acc
    ELSE LET f == Head(names)
             k == Group1(f, pattern)
         IN  IF RegexMatches(f, pattern) /\ ~\E i \in 1..Len(acc) : acc[i] = k
             THEN MatchKeys(Tail(names), pattern, Append(acc, k))
             ELSE MatchKeys(Tail(names), pattern, acc)

\* re_glob: [ok |-> TRUE, keys |-> ...] or the IndexError of group(1)
re_glob(names, pattern) ==
    IF ~pattern.group /\ \E i \in 1..Len(names) : RegexMatches(names[i], pattern)
    THEN [ok |-> FALSE, keys |-> <<>>, error |-> "IndexError"]
    ELSE IF ~pattern.group THEN [ok |-> TRUE, keys |-> <<>>, error |-> "none"]
    ELSE [ok |-> TRUE, keys |-> MatchKeys(names, pattern, <<>>), error |-> "none"]

\* the construction of card_renderers in main
BuildRenderers(a, names) ==
    IF a.pattern = None
    THEN [ok |-> TRUE, error |-> "none",
          renderers |-> <<CardRenderer(a.path, a.prefix, a.rendered_cards_file,
                                       a.csv_file, a.css_file)>>]
    ELSE LET m == re_glob(names, a.pattern[1])
         IN  IF ~m.ok THEN [ok |-> FALSE, error |-> m.error, renderers |-> <<>>]
             ELSE IF m.keys # <<>> /\ (a.csv_file = None \/ a.css_file = None)
             THEN [ok |-> FALSE, error |-> "AttributeError", renderers |-> <<>>]
             ELSE [ok |-> TRUE, error |-> "none",
                   renderers |->
                     [i \in 1..Len(m.keys) |->
                        CardRenderer(a.path,
                                     Format(a.prefix, m.keys[i]),
                                     Format(a.rendered_cards_file, m.keys[i]),
                                     Some(Format(a.csv_file[1], m.keys[i])),
                                     Some(Format(a.css_file[1], m.keys[i])))]]

\* ------------------------------------------------------------ file system
FileAt(p) == IF p \in DOMAIN files THEN files[p] ELSE None

WriteFile(f, p, c) == [q \in DOMAIN f \cup {p} |-> IF q = p THEN c ELSE f[q]]

EmptyFile == [kind |-> "empty", rendered_cards |-> <<>>, css_file |-> <<>>,
              custom_header |-> None]

PartialFile == [kind |-> "partial", rendered_cards |-> <<>>, css_file |-> <<>>,
                custom_header |-> None]

\* cards.html.jinja2 rendered with its three arguments
Document(cards, css, header) ==
    [kind |-> "document", rendered_cards |-> cards, css_file |-> css,
     custom_header |-> header]

\* the instants time.time() may return, as text
Times == {<<"1","7",".","5">>}

\* template.render(card_data, __card_data=card_data, __time=t)
Render(card_data, t) == [card |-> card_data, time |-> t]

\* mutant: range(1, num_cards) instead of range(0, num_cards)
RepeatFromOne(x, n) == [i \in 1..(n - 1) |-> x]

Repeat(x, n) == [i \in 1..n |-> x]

Get(row, key, default) == IF key \in DOMAIN row THEN row[key] ELSE default

OutputPaths == { card_renderers[i].all_cards_rendered_path :
                   i \in 1..Len(card_renderers) }

NoCalls == [i \in 1..Len(card_renderers) |-> 0]

\* a modification of path p reaches the queue of a running observer; the
\* notification queue is finite and an event that finds it full is lost
Notify(q, p, origin) ==
    IF observer = "running" /\ Len(q) < MaxQueue
    THEN Append(q, [src_path |-> p, origin |-> origin])
    ELSE q

\* ------------------------------------------------------------ render_cards
\* An exception leaves render_cards and the loop that called it: nothing in
\* on_any_event or main catches it.  In main it ends the process before
\* observer.start(); in the handler it reaches the observer thread, and
\* whether that thread goes on dispatching is left open.
Raise(e) ==
    /\ error' = e
    /\ pc' = "idle"
    /\ IF mainpc = "render"
       THEN /\ mainpc' = "crashed"
            /\ UNCHANGED <<observer, event>>
       ELSE /\ event' = None
            /\ observer' \in {"running", "dead"}
            /\ UNCHANGED mainpc

NoRaise == UNCHANGED <<error, mainpc, observer, event>>

\* the call card_renderer.render_cards() of main's loop and on_any_event's
CallRenderCards ==
    /\ pc = "idle"
    /\ cur \in 1..Len(card_renderers)
    /\ mainpc = "render" \/ event # None
    /\ pc' = "read_csv"
    /\ invoked' = [invoked EXCEPT ![cur] = @ + 1]
    /\ prior' = FileAt(card_renderers[cur].all_cards_rendered_path)
    /\ error' = "none"
    /\ cards_data' = <<>>
    /\ rendered_cards' = <<>>
    /\ idx' = 0
    /\ num_cards' = None
    /\ template' = None
    /\ custom_header' = None
    /\ UNCHANGED <<args, listing, card_renderers, files, mainpc, observer,
                   event_queue, event, cur, served, nexternal>>

\* time.sleep(0.5), then the csv file is read into cards_data
ReadCsv ==
    /\ pc = "read_csv"
    /\ LET f == FileAt(card_renderers[cur].csv_card_path)
       IN  IF f = None
           THEN Raise("FileNotFoundError") /\ UNCHANGED cards_data
           ELSE IF ~f[1].decodable
           THEN Raise("UnicodeDecodeError") /\ UNCHANGED cards_data
           ELSE /\ cards_data' = f[1].rows
                /\ pc' = "load_template"
                /\ NoRaise
    /\ UNCHANGED <<args, listing, card_renderers, files, event_queue, cur,
                   rendered_cards, idx, num_cards, template, custom_header,
                   invoked, prior, served, nexternal>>

\* mutant: the output file is opened for writing before the template is read
LoadTemplateAfterOpen ==
    /\ pc = "load_template"
    /\ files' = WriteFile(files, card_renderers[cur].all_cards_rendered_path,
                          Some(EmptyFile))
    /\ LET f == FileAt(card_renderers[cur].single_card_template_path)
       IN  IF f = None
           THEN Raise("FileNotFoundError") /\ UNCHANGED template
           ELSE IF f[1] = "syntax_error"
           THEN Raise("TemplateSyntaxError") /\ UNCHANGED template
           ELSE /\ template' = f
                /\ pc' = "expand"
                /\ NoRaise
    /\ UNCHANGED <<args, listing, card_renderers, event_queue, cur,
                   cards_data, rendered_cards, idx, num_cards, custom_header,
                   invoked, prior, served, nexternal>>

\* the single card template is opened and compiled
LoadTemplate ==
    /\ pc = "load_template"
    /\ LET f == FileAt(card_renderers[cur].single_card_template_path)
       IN  IF f = None
           THEN Raise("FileNotFoundError") /\ UNCHANGED template
           ELSE IF f[1] = "syntax_error"
           THEN Raise("TemplateSyntaxError") /\ UNCHANGED template
           ELSE /\ template' = f
                /\ pc' = "expand"
                /\ NoRaise
    /\ UNCHANGED <<args, listing, card_renderers, files, event_queue, cur,
                   cards_data, rendered_cards, idx, num_cards, custom_header,
                   invoked, prior, served, nexternal>>

IsIgnored(card_data) ==
    Lower(Str(Get(card_data, "ignore", Some(<<"f","a","l","s","e">>))))
        = <<"t","r","u","e">>

\* the repetition count of a row: <<n>>, or None when int() raises
CountOf(card_data) ==
    LET n == Get(card_data, "num_cards", None)
    IN  IF n = None \/ MatchesNoDigits(n[1]) THEN Some(1) ELSE IntParse(n[1])

\* one iteration of the loop over cards_data
ExpandRow ==
    /\ pc = "expand"
    /\ idx < Len(cards_data)
    /\ LET card_data == cards_data[idx + 1]
       IN  IF IsIgnored(card_data)
           THEN /\ idx' = idx + 1
                /\ NoRaise
                /\ UNCHANGED <<pc, rendered_cards, num_cards>>
           ELSE IF template[1] = "render_error"
           THEN Raise("TemplateError") /\ UNCHANGED <<idx, rendered_cards, num_cards>>
           ELSE IF CountOf(card_data) = None
           THEN Raise("ValueError") /\ UNCHANGED <<idx, rendered_cards, num_cards>>
           ELSE \E t \in Times :
                /\ num_cards' = CountOf(card_data)
                /\ rendered_cards' = rendered_cards
                       \o Repeat(Render(card_data, t), CountOf(card_data)[1])
                /\ idx' = idx + 1
                /\ NoRaise
                /\ UNCHANGED pc
    /\ UNCHANGED <<args, listing, card_renderers, files, event_queue, cur,
                   cards_data, template, custom_header, invoked, prior, served,
                   nexternal>>

\* the custom header is read if it exists
LoadHeader ==
    /\ pc = "expand"
    /\ idx = Len(cards_data)
    /\ custom_header' = FileAt(card_renderers[cur].custom_header_path)
    /\ pc' = "open_output"
    /\ UNCHANGED <<args, listing, card_renderers, files, mainpc, observer,
                   event_queue, event, cur, cards_data, rendered_cards, idx,
                   num_cards, template, error, invoked, prior, served, nexternal>>

\* open(all_cards_rendered_path, "w") truncates the file
OpenOutput ==
    /\ pc = "open_output"
    /\ LET p == card_renderers[cur].all_cards_rendered_path
       IN  /\ files' = WriteFile(files, p, Some(EmptyFile))
           /\ event_queue' = Notify(event_queue, p, "render")
    /\ pc' = "write_output"
    /\ UNCHANGED <<args, listing, card_renderers, mainpc, observer, event, cur,
                   cards_data, rendered_cards, idx, num_cards, template,
                   custom_header, error, invoked, prior, served, nexternal>>

\* write(): the text goes to the file buffer; a long text is flushed in part
WriteOutput ==
    /\ pc = "write_output"
    /\ \E c \in {EmptyFile, PartialFile} :
         files' = WriteFile(files, card_renderers[cur].all_cards_rendered_path,
                            Some(c))
    /\ pc' = "close_output"
    /\ UNCHANGED <<args, listing, card_renderers, mainpc, observer, event_queue,
                   event, cur, cards_data, rendered_cards, idx, num_cards,
                   template, custom_header, error, invoked, prior, served,
                   nexternal>>

\* leaving the with block flushes and closes the file; render_cards returns
CloseOutput ==
    /\ pc = "close_output"
    /\ LET r == card_renderers[cur]
       IN  /\ files' = WriteFile(files, r.all_cards_rendered_path,
                         Some(Document(rendered_cards, r.css_file, custom_header)))
           /\ event_queue' = Notify(event_queue, r.all_cards_rendered_path, "render")
    /\ pc' = "idle"
    /\ cur' = cur + 1
    /\ UNCHANGED <<args, listing, card_renderers, mainpc, observer, event,
                   cards_data, rendered_cards, idx, num_cards, template,
                   custom_header, error, invoked, prior, served, nexternal>>

\* --------------------------------------------------- RenderingEventHandler
\* the observer thread takes the next event and calls on_any_event with it
Dispatch ==
    /\ observer = "running"
    /\ event = None
    /\ event_queue # <<>>
    /\ event' = Some(Head(event_queue))
    /\ event_queue' = Tail(event_queue)
    /\ cur' = 0
    /\ invoked' = NoCalls
    /\ UNCHANGED <<args, listing, card_renderers, files, mainpc, observer, pc,
                   cards_data, rendered_cards, idx, num_cards, template,
                   custom_header, error, prior, served, nexternal>>

\* mutant: the event is compared with the output of the first renderer only
IsFirstOutput(src_path) ==
    /\ card_renderers # <<>>
    /\ card_renderers[1].all_cards_rendered_path = src_path

\* event.src_path in [r.all_cards_rendered_path for r in self.card_renderers]
IsOwnOutput(src_path) ==
    \E i \in 1..Len(card_renderers) :
        card_renderers[i].all_cards_rendered_path = src_path

\* mutant: on_any_event without its test, every event enters the loop
on_any_event_untested ==
    /\ event # None
    /\ cur = 0
    /\ event' = event
    /\ cur' = 1
    /\ UNCHANGED <<args, listing, card_renderers, files, mainpc, observer,
                   event_queue, pc, cards_data, rendered_cards, idx, num_cards,
                   template, custom_header, error, invoked, prior, served,
                   nexternal>>

\* the test at the head of on_any_event: return, or enter the loop
on_any_event ==
    /\ event # None
    /\ cur = 0
    /\ IF IsOwnOutput(event[1].src_path)
       THEN event' = None /\ cur' = 0
       ELSE event' = event /\ cur' = 1
    /\ UNCHANGED <<args, listing, card_renderers, files, mainpc, observer,
                   event_queue, pc, cards_data, rendered_cards, idx, num_cards,
                   template, custom_header, error, invoked, prior, served,
                   nexternal>>

\* the loop of on_any_event is exhausted: the handler returns
HandlerReturn ==
    /\ event # None
    /\ pc = "idle"
    /\ cur > Len(card_renderers)
    /\ event' = None
    /\ cur' = 0
    /\ UNCHANGED <<args, listing, card_renderers, files, mainpc, observer,
                   event_queue, pc, cards_data, rendered_cards, idx, num_cards,
                   template, custom_header, error, invoked, prior, served,
                   nexternal>>

\* ------------------------------------------------------------------- main
\* after the first renders: observer.start(), then server.serve()
StartServing ==
    /\ mainpc = "render"
    /\ pc = "idle"
    /\ cur > Len(card_renderers)
    /\ mainpc' = "serve"
    /\ observer' = "running"
    /\ cur' = 0
    /\ UNCHANGED <<args, listing, card_renderers, files, event_queue, event, pc,
                   cards_data, rendered_cards, idx, num_cards, template,
                   custom_header, error, invoked, prior, served, nexternal>>

\* the start of main up to the construction of card_renderers
Startup ==
    /\ mainpc = "start"
    /\ LET b == BuildRenderers(args, listing)
       IN  /\ card_renderers' = b.renderers
           /\ error' = b.error
           /\ mainpc' = IF b.ok THEN "render" ELSE "crashed"
           /\ invoked' = [i \in 1..Len(b.renderers) |-> 0]
    /\ cur' = 1
    /\ UNCHANGED <<args, listing, files, observer, event_queue, event, pc,
                   cards_data, rendered_cards, idx, num_cards, template,
                   custom_header, prior, served, nexternal>>

\* ------------------------------------------------------------ collaborators
\* the live-reload server reads an output file to serve it
ServerRead ==
    /\ mainpc = "serve"
    /\ \E i \in 1..Len(card_renderers) :
         served' = LET f == FileAt(card_renderers[i].all_cards_rendered_path)
                   IN  IF f = None THEN "missing" ELSE f[1].kind
    /\ UNCHANGED <<args, listing, card_renderers, files, mainpc, observer,
                   event_queue, event, cur, pc, cards_data, rendered_cards, idx,
                   num_cards, template, custom_header, error, invoked, prior,
                   nexternal>>

Cell(text) == Some(text)

AceRow == [name |-> Cell(<<"A","c","e">>), num_cards |-> Cell(<<"2">>),
           ignore |-> Cell(<<>>)]

KingRow == [name |-> Cell(<<"K","i","n","g">>), num_cards |-> Cell(<<>>),
            ignore |-> Cell(<<"t","r","u","e">>)]

QueenRow == [name |-> Cell(<<"Q","u","e","e","n">>), num_cards |-> Cell(<<"1">>),
             ignore |-> Cell(<<"f","a","l","s","e">>)]

CsvExample == [decodable |-> TRUE, rows |-> <<AceRow, KingRow, QueenRow>>]

CsvEdited == [decodable |-> TRUE, rows |-> <<QueenRow>>]

\* what a user may do to the files of a deck: <<path, new content>>
Edits(r) ==
    { <<r.csv_card_path, None>>,
      <<r.csv_card_path, Some(CsvEdited)>>,
      <<r.single_card_template_path, Some("render_error")>>,
      <<PathJoin(r.input_path, r.css_file), Some("css")>> }

\* a file of the watched tree is changed from outside
ExternalChange ==
    /\ mainpc \in {"render", "serve"}
    /\ nexternal < MaxExternal
    /\ \E i \in 1..Len(card_renderers) : \E e \in Edits(card_renderers[i]) :
         /\ files' = WriteFile(files, e[1], e[2])
         /\ event_queue' = Notify(event_queue, e[1], "external")
    /\ nexternal' = nexternal + 1
    /\ UNCHANGED <<args, listing, card_renderers, mainpc, observer, event, cur,
                   pc, cards_data, rendered_cards, idx, num_cards, template,
                   custom_header, error, invoked, prior, served>>

\* -------------------------------------------------------------------- Spec
AssetsPath == <<"assets">>

DefaultArgs ==
    [path |-> AssetsPath, prefix |-> <<"_card">>,
     rendered_cards_file |-> <<"index", ".", "html">>,
     csv_file |-> None, css_file |-> None, pattern |-> None]

CardPattern == [lit |-> <<"_card_">>, group |-> TRUE]

PatternArgs ==
    [path |-> AssetsPath, prefix |-> <<"_card_", "{}">>,
     rendered_cards_file |-> <<"{}", ".", "html">>,
     csv_file |-> Some(<<"assets", "/", "{}", ".", "csv">>),
     css_file |-> Some(<<"{}", ".", "css">>),
     pattern |-> Some(CardPattern)]

SharedOutputArgs == [PatternArgs EXCEPT !.rendered_cards_file = <<"index", ".", "html">>]

TemplateName(id) == <<"_card_">> \o id \o TemplateSuffix

RedBlue == <<TemplateName(<<"r","e","d">>), TemplateName(<<"b","l","u","e">>)>>

Configs ==
    { [args |-> DefaultArgs, listing |-> <<<<"_card">> \o TemplateSuffix>>],
      [args |-> PatternArgs, listing |-> RedBlue],
      [args |-> SharedOutputArgs, listing |-> RedBlue] }

\* the input files of the decks as main finds them
InitialFiles(rs, csv, tpl) ==
    LET csvs == { rs[i].csv_card_path : i \in 1..Len(rs) }
        tpls == { rs[i].single_card_template_path : i \in 1..Len(rs) }
    IN  [p \in csvs \cup tpls |-> IF p \in csvs THEN csv ELSE tpl]

InitCommon ==
    /\ files = InitialFiles(card_renderers, Some(CsvExample), Some("ok"))
    /\ observer = "new"
    /\ event_queue = <<>>
    /\ event = None
    /\ cur = 1
    /\ cards_data = <<>>
    /\ rendered_cards = <<>>
    /\ idx = 0
    /\ num_cards = None
    /\ template = None
    /\ custom_header = None
    /\ error = "none"
    /\ invoked = [i \in 1..Len(card_renderers) |-> 0]
    /\ prior = None
    /\ served = "none"
    /\ nexternal = 0

Init ==
    /\ \E c \in Configs :
         /\ args = c.args
         /\ listing = c.listing
         /\ card_renderers = BuildRenderers(c.args, c.listing).renderers
    /\ mainpc = "render"
    /\ pc = "idle"
    /\ InitCommon

Next ==
    \/ CallRenderCards
    \/ ReadCsv
    \/ LoadTemplate
    \/ ExpandRow
    \/ LoadHeader
    \/ OpenOutput
    \/ WriteOutput
    \/ CloseOutput
    \/ StartServing
    \/ Dispatch
    \/ on_any_event
    \/ HandlerReturn
    \/ ExternalChange

Spec == Init /\ [][Next]_vars

\* the program together with a reader of its output files
ServeNext ==
    \/ Next
    \/ ServerRead

ServeSpec == Init /\ [][ServeNext]_vars

\* the steps of the program itself (main and the observer thread)
ProgramStep ==
    \/ CallRenderCards
    \/ ReadCsv
    \/ LoadTemplate
    \/ ExpandRow
    \/ LoadHeader
    \/ OpenOutput
    \/ WriteOutput
    \/ CloseOutput
    \/ StartServing
    \/ Dispatch
    \/ on_any_event
    \/ HandlerReturn

\* a thread that can take a step eventually takes it
FairSpec == Init /\ [][Next]_vars /\ WF_vars(ProgramStep)

\* -------------------------------------------------------------- ExpandSpec
\* One call of render_cards up to the end of the expansion, over every data
\* source of at most MaxRows rows drawn from RowValues.
IgnoreCells ==
    { <<>>,
      <<Cell(<<"t","r","u","e">>)>>,
      <<Cell(<<"T","R","U","E">>)>>,
      <<Cell(<<"T","r","u","e">>)>>,
      <<Cell(<<"f","a","l","s","e">>)>> }

NumCardsCells ==
    { <<>>,
      <<Cell(<<>>)>>,
      <<Cell(<<"x">>)>>,
      <<Cell(<<"0">>)>>,
      <<Cell(<<"2">>)>>,
      <<Cell(<<" ","3">>)>>,
      <<Cell(<<"-","1">>)>>,
      <<Cell(<<"2","x">>)>> }

\* a row of csv.DictReader: a field the header lacks is not a key of the row
Row(ig, nc) ==
    [k \in {"name"} \cup (IF ig = <<>> THEN {} ELSE {"ignore"})
                    \cup (IF nc = <<>> THEN {} ELSE {"num_cards"}) |->
        IF k = "name" THEN Cell(<<"A","c","e">>)
        ELSE IF k = "ignore" THEN ig[1] ELSE nc[1]]

RowValues == { Row(ig, nc) : ig \in IgnoreCells, nc \in NumCardsCells }

CsvValues ==
    { [decodable |-> TRUE, rows |-> r] :
        r \in UNION { [1..n -> RowValues] : n \in 0..MaxRows } }

ExpandInit ==
    /\ args = DefaultArgs
    /\ listing = <<<<"_card">> \o TemplateSuffix>>
    /\ card_renderers = BuildRenderers(args, listing).renderers
    /\ mainpc = "render"
    /\ pc = "idle"
    /\ observer = "new"
    /\ event_queue = <<>>
    /\ event = None
    /\ cur = 1
    /\ cards_data = <<>>
    /\ rendered_cards = <<>>
    /\ idx = 0
    /\ num_cards = None
    /\ template = None
    /\ custom_header = None
    /\ error = "none"
    /\ invoked = <<0>>
    /\ prior = None
    /\ served = "none"
    /\ nexternal = 0
    /\ \/ \E c \in CsvValues, t \in {"ok", "render_error"} :
            files = InitialFiles(card_renderers, Some(c), Some(t))
       \/ \E c \in {None, Some([decodable |-> FALSE, rows |-> <<>>])} :
            files = InitialFiles(card_renderers, c, Some("ok"))
       \/ \E t \in {None, Some("syntax_error")} :
            files = InitialFiles(card_renderers, Some(CsvExample), t)
       \/ \E h \in {Some(<<>>), Some(<<"<", "h", "1", ">">>)} :
            files = WriteFile(InitialFiles(card_renderers, Some(CsvExample), Some("ok")),
                              card_renderers[1].custom_header_path, h)

ExpandNext ==
    \/ CallRenderCards
    \/ ReadCsv
    \/ LoadTemplate
    \/ ExpandRow
    \/ LoadHeader

ExpandSpec == ExpandInit /\ [][ExpandNext]_vars

\* ------------------------------------------------------------ DiscoverSpec
\* The start of main over every listing of the sample directory entries.
DirNames ==
    { TemplateName(<<"r","e","d">>),
      TemplateName(<<"b","l","u","e">>),
      TemplateName(<<"r","e","d">>) \o <<".", "b","a","k">>,
      TemplateName(<<>>),
      <<"n","o","t","e","s", ".", "t","x","t">> }

Listings ==
    { l \in UNION { [1..n -> DirNames] : n \in 0..Cardinality(DirNames) } :
        \A i, j \in 1..Len(l) : i # j => l[i] # l[j] }

DiscoverArgs ==
    { [PatternArgs EXCEPT !.pattern = p, !.csv_file = csv, !.css_file = css,
                          !.rendered_cards_file = out] :
        p \in {None, Some(CardPattern), Some([CardPattern EXCEPT !.group = FALSE])},
        csv \in {None, PatternArgs.csv_file},
        css \in {None, PatternArgs.css_file},
        out \in {PatternArgs.rendered_cards_file, DefaultArgs.rendered_cards_file} }

DiscoverInit ==
    /\ args \in DiscoverArgs
    /\ listing \in Listings
    /\ card_renderers = <<>>
    /\ mainpc = "start"
    /\ pc = "idle"
    /\ InitCommon

DiscoverNext == Startup

DiscoverSpec == DiscoverInit /\ [][DiscoverNext]_vars

\* ================================================================= claims
\* C1: an event whose path is the output path of any renderer (its own or
\* another deck's) is discarded: while it is being handled no render_cards
\* call is made and no render pass runs.
C1_OutputEventDiscarded ==
    (event # None /\ event[1].src_path \in OutputPaths) =>
        (pc = "idle" /\ cur = 0 /\ invoked = NoCalls)

\* the handler holds an event on the output of the second of two decks
C1_Witness ==
    /\ event # None
    /\ Len(card_renderers) = 2
    /\ event[1].src_path = card_renderers[2].all_cards_rendered_path
    /\ event[1].src_path # card_renderers[1].all_cards_rendered_path

\* C2: errors never cross deck boundaries: when render_cards of one renderer
\* fails during the handling of an event, every other renderer is still
\* rendered for that event.
C2_ErrorsStayInDeck ==
    (mainpc = "serve" /\ event = None /\ error # "none" /\ cur # 0) =>
        \A i \in 1..Len(card_renderers) : i # cur => invoked[i] >= 1

\* C3: the handling of an event whose path is no output path calls
\* render_cards exactly once on every renderer.
C3_EveryRendererOnce ==
    LET exhausted == event # None /\ pc = "idle" /\ cur > Len(card_renderers)
        raised == mainpc = "serve" /\ event = None /\ error # "none" /\ cur # 0
    IN  (exhausted \/ raised) =>
            \A i \in 1..Len(card_renderers) : invoked[i] = 1

\* no pass runs and nothing is left for the observer to dispatch
Quiescent ==
    /\ mainpc # "render"
    /\ pc = "idle"
    /\ event = None
    /\ observer = "running" => event_queue = <<>>

\* C4: the refresh loop has no feedback: after the finitely many external
\* changes the program makes finitely many passes and then stays idle.
C4_NoFeedback == <>[]Quiescent

\* two decks are idle again after a pass of the handler whose own write
\* events were dispatched and dropped
C4_Witness ==
    /\ Quiescent
    /\ observer = "running"
    /\ nexternal >= 1
    /\ Len(card_renderers) = 2
    /\ error = "none"
    /\ prior # None
    /\ invoked = NoCalls

\* C5: a reader of the output file sees a complete document, never an
\* empty or partially written file.
C5_AtomicOverwrite == served \in {"none", "document"}

\* the texts of the claims' cases
TrueTexts == { <<"t","r","u","e">>, <<"T","R","U","E">>, <<"T","r","u","e">> }

IgnoreIsTrue(row) ==
    /\ "ignore" \in DOMAIN row
    /\ row["ignore"] # None
    /\ row["ignore"][1] \in TrueTexts

\* the valid counts among NumCardsCells, with their values
ValidCounts == { <<<<"0">>, 0>>, <<<<"2">>, 2>>, <<<<" ","3">>, 3>> }

HasValidCount(row) ==
    /\ "num_cards" \in DOMAIN row
    /\ row["num_cards"] # None
    /\ \E v \in ValidCounts : v[1] = row["num_cards"][1]

ValidCount(row) == (CHOOSE v \in ValidCounts : v[1] = row["num_cards"][1])[2]

\* C6: a non-ignored row whose num_cards is absent or is no valid
\* non-negative integer gets the count 1 and never raises.
C6_MalformedCountIsOne ==
    /\ error # "ValueError"
    /\ (pc = "expand" /\ idx >= 1 /\ ~IgnoreIsTrue(cards_data[idx])
           /\ ~HasValidCount(cards_data[idx])) => num_cards = Some(1)

RECURSIVE IsExpansion(_, _)
\* frags is the concatenation in row order of one block per row: empty for
\* an ignored row, N copies of one rendering of the row for a valid count N
IsExpansion(frags, rows) ==
    IF rows = <<>> THEN frags = <<>>
    ELSE LET r == Head(rows)
             sizes == IF IgnoreIsTrue(r) THEN {0}
                      ELSE IF HasValidCount(r) THEN {ValidCount(r)}
                      ELSE 0..Len(frags)
         IN  \E k \in sizes :
               /\ k <= Len(frags)
               /\ \E t \in Times : \A i \in 1..k : frags[i] = Render(r, t)
               /\ IsExpansion(SubSeq(frags, k + 1, Len(frags)), Tail(rows))

\* C7: the fragments are, in row order, one contiguous block per row, of
\* exactly N identical copies for a row whose count is the valid integer N.
C7_BlocksInRowOrder ==
    pc = "open_output" => IsExpansion(rendered_cards, cards_data)

\* two rows with different valid counts have been expanded
C7_Witness ==
    /\ pc = "open_output"
    /\ Len(cards_data) = 2
    /\ \A i \in 1..2 : ~IgnoreIsTrue(cards_data[i]) /\ HasValidCount(cards_data[i])
    /\ ValidCount(cards_data[1]) = 3
    /\ ValidCount(cards_data[2]) = 2
    /\ Len(rendered_cards) = 5

\* C8: a row whose ignore field is "true" in any case yields no fragment
\* whatever its num_cards, and is skipped before anything can raise.
C8_IgnoredRowSkipped ==
    [][(pc = "expand" /\ idx < Len(cards_data) /\ IgnoreIsTrue(cards_data[idx + 1]))
          => (rendered_cards' = rendered_cards /\ idx' = idx + 1
                /\ pc' = "expand" /\ error' = "none")]_vars

\* an ignored "TRUE" row with a malformed count has been passed under a
\* template that fails on every row
C8_Witness ==
    /\ pc = "expand"
    /\ idx >= 1
    /\ IgnoreIsTrue(cards_data[idx])
    /\ cards_data[idx]["ignore"][1] = <<"T","R","U","E">>
    /\ "num_cards" \in DOMAIN cards_data[idx]
    /\ cards_data[idx]["num_cards"] = Cell(<<"2","x">>)
    /\ template = Some("render_error")
    /\ error = "none"

\* the identifiers captured from the entries of the listing
CapturedIds ==
    { Group1(listing[i], args.pattern[1]) :
        i \in { j \in 1..Len(listing) : RegexMatches(listing[j], args.pattern[1]) } }

\* C9: in multi-deck mode main builds exactly one renderer per distinct
\* captured identifier, with the identifier substituted into prefix, output
\* file, data path and stylesheet, the last two defaulting per prefix.
C9_OneRendererPerIdentifier ==
    (mainpc # "start" /\ args.pattern # None /\ args.pattern[1].group) =>
        /\ mainpc = "render"
        /\ Len(card_renderers) = Cardinality(CapturedIds)
        /\ \A id \in CapturedIds : \E i \in 1..Len(card_renderers) :
             LET r == card_renderers[i]
                 prefix == Format(args.prefix, id)
             IN  /\ r.prefix = prefix
                 /\ r.all_cards_rendered_path =
                        PathJoin(args.path, Format(args.rendered_cards_file, id))
                 /\ r.csv_card_path =
                        IF args.csv_file = None
                        THEN PathJoin(args.path, prefix \o <<".", "csv">>)
                        ELSE Format(args.csv_file[1], id)
                 /\ r.css_file =
                        IF args.css_file = None THEN prefix \o <<".", "css">>
                        ELSE Format(args.css_file[1], id)

ReadAndRenderErrors ==
    {"FileNotFoundError", "UnicodeDecodeError", "TemplateSyntaxError",
     "TemplateError"}

\* C10: a pass that aborts on a read error or on a template error of the
\* expansion leaves the output file with the content it had before the pass.
C10_FailedPassWritesNothing ==
    (pc = "idle" /\ error \in ReadAndRenderErrors /\ cur \in 1..Len(card_renderers)
        /\ event = None /\ mainpc \in {"crashed", "serve"})
        => FileAt(card_renderers[cur].all_cards_rendered_path) = prior

\* a pass of the handler has failed over an existing document
C10_Witness ==
    /\ pc = "idle"
    /\ mainpc = "serve"
    /\ event = None
    /\ error = "TemplateError"
    /\ cur \in 1..Len(card_renderers)
    /\ prior # None
    /\ prior[1].kind = "document"

====
